---------------------------- MODULE Spec2Model ----------------------------
(***************************************************************************)
(* Pension-savings calculator (src/app.py): the payout and taxation        *)
(* engine, its pure tax helpers, and the sidebar's session state.          *)
(*                                                                         *)
(* Amounts are Python floats in the source.  They are modelled as exact    *)
(* rationals in won: a number is a record [w, n, d] standing for           *)
(* w + n/d with 0 <= n < d and gcd(n, d) = 1, so equality of numbers is    *)
(* equality of records.  Rounding of IEEE doubles is not modelled.         *)
(***************************************************************************)
EXTENDS Integers, Sequences, FiniteSets, TLC

VARIABLES
    inputs,               \* UserInput handed to run_payout_simulation
    total_at_retirement,  \* argument total_at_retirement
    non_taxable_wallet,   \* run_payout_simulation local
    taxable_wallet,       \* run_payout_simulation local
    year_offset,          \* loop variable of `for year_offset in range(payout_years)`
    annual_breakdown,     \* list of the emitted yearly records
    pc,                   \* position in run_payout_simulation: "loop" | "done"
    local,                \* locals of the most recent loop iteration
    call,                 \* latest call of a pure tax helper: function, arguments, result
    prev,                 \* the call before it, when it was of the same helper
    session,              \* st.session_state
    user_input_obj,       \* st.session_state.user_input_obj (snapshot taken by the button)
    press,                \* history: outcome of the latest button press, changes since
    accumulation          \* calculate_total_at_retirement's loop: year, current_value

vars == << inputs, total_at_retirement, non_taxable_wallet, taxable_wallet,
           year_offset, annual_breakdown, pc, local, call, prev,
           session, user_input_obj, press, accumulation >>

simVars == << inputs, total_at_retirement, non_taxable_wallet, taxable_wallet,
              year_offset, annual_breakdown, pc, local >>
taxVars == << call, prev >>
uiVars == << session, user_input_obj, press >>
accVars == << accumulation >>

-----------------------------------------------------------------------------
(* Exact arithmetic standing for Python's float operators.                 *)

RECURSIVE GCD(_, _)
GCD(a, b) == IF b = 0 THEN a ELSE GCD(b, a % b)

Abs(k) == IF k < 0 THEN -k ELSE k

\* w + n/d brought to normal form (d > 0, any integer n).
Norm(w, n, d) ==
    LET r == n % d
        g == GCD(d, r)
    IN  [w |-> w + (n \div d), n |-> r \div g, d |-> d \div g]

\* The integer k, and the fraction p/q (q > 0), as numbers.
I(k) == [w |-> k, n |-> 0, d |-> 1]
Q(p, q) == Norm(0, p, q)

\* p/q of a number written as one fraction (used for small numbers only).
Numer(a) == a.w * a.d + a.n

\* a + b
Add(a, b) ==
    LET g == GCD(a.d, b.d)
        l == (a.d \div g) * b.d
    IN  Norm(a.w + b.w, a.n * (l \div a.d) + b.n * (l \div b.d), l)

\* -a
Neg(a) == IF a.n = 0 THEN I(-a.w) ELSE [w |-> -a.w - 1, n |-> a.d - a.n, d |-> a.d]

\* a - b
Sub(a, b) == Add(a, Neg(b))

\* a < b, a <= b, a > b
Lt(a, b) == a.w < b.w \/ (a.w = b.w /\ a.n * b.d < b.n * a.d)
Leq(a, b) == ~Lt(b, a)
Gt(a, b) == Lt(b, a)

Zero == I(0)
One == I(1)

\* Python's min(a, b) and max(a, b): the first argument on a tie.
Min(a, b) == IF Lt(b, a) THEN b ELSE a
Max(a, b) == IF Gt(b, a) THEN b ELSE a

\* a * p / q for integers p and q > 0, the whole and the fractional part of a
\* multiplied separately so that no intermediate product leaves 32 bits.
MulQ(a, p, q) ==
    LET g0 == GCD(Abs(p), q)
        p0 == p \div g0
        q0 == q \div g0
        g1 == GCD(Abs(p0), a.d)
        g2 == GCD(q0, a.n)
    IN  Add(Norm((a.w \div q0) * p0, (a.w % q0) * p0, q0),
            Norm(0, (a.n \div g2) * (p0 \div g1), (a.d \div g1) * (q0 \div g2)))

\* a * b and a / b (b a small number; b # 0 for the quotient)
Mul(a, b) == MulQ(a, Numer(b), b.d)
Div(a, b) == IF Numer(b) > 0 THEN MulQ(a, b.d, Numer(b)) ELSE MulQ(a, -b.d, -Numer(b))

\* a ** k for an integer k >= 0 (by repeated squaring), and a ** -k
RECURSIVE Pow(_, _)
Pow(a, k) ==
    IF k = 0 THEN One
    ELSE IF k % 2 = 1 THEN Mul(Pow(a, k - 1), a)
    ELSE LET half == Pow(a, k \div 2) IN Mul(half, half)
PowNeg(a, k) == Div(One, Pow(a, k))

-----------------------------------------------------------------------------
(* Constants of the tax law (src/app.py lines 35-56).                      *)

MIN_RETIREMENT_AGE == 55
MIN_CONTRIBUTION_YEARS == 5
MIN_PAYOUT_YEARS == 10
PENSION_TAX_THRESHOLD == 15000000
SEPARATE_TAX_RATE == Q(165, 1000)
OTHER_INCOME_TAX_RATE == Q(165, 1000)
PENSION_SAVING_TAX_CREDIT_LIMIT == 6000000
MAX_CONTRIBUTION_LIMIT == 18000000
\* PENSION_TAX_RATES: "under_70", "under_80", "over_80"
PENSION_TAX_RATES == [under_70 |-> Q(55, 1000), under_80 |-> Q(44, 1000), over_80 |-> Q(33, 1000)]
LOCAL_TAX_RATE == Q(1, 10)

\* A faulty variant: the progressive deduction of the second bracket is mistyped.
COMPREHENSIVE_TAX_BRACKETS_Mistyped ==
    << [threshold |-> 14000000,   inf |-> FALSE, rate |-> Q(6, 100),  deduction |-> 0],
       [threshold |-> 50000000,   inf |-> FALSE, rate |-> Q(15, 100), deduction |-> 1620000],
       [threshold |-> 88000000,   inf |-> FALSE, rate |-> Q(24, 100), deduction |-> 5760000],
       [threshold |-> 150000000,  inf |-> FALSE, rate |-> Q(35, 100), deduction |-> 15440000],
       [threshold |-> 300000000,  inf |-> FALSE, rate |-> Q(38, 100), deduction |-> 19940000],
       [threshold |-> 500000000,  inf |-> FALSE, rate |-> Q(40, 100), deduction |-> 25940000],
       [threshold |-> 1000000000, inf |-> FALSE, rate |-> Q(42, 100), deduction |-> 35940000],
       [threshold |-> 0,          inf |-> TRUE,  rate |-> Q(45, 100), deduction |-> 65940000] >>

\* (threshold, rate, deduction); inf marks the float('inf') threshold of the last bracket.
COMPREHENSIVE_TAX_BRACKETS ==
    << [threshold |-> 14000000,   inf |-> FALSE, rate |-> Q(6, 100),  deduction |-> 0],
       [threshold |-> 50000000,   inf |-> FALSE, rate |-> Q(15, 100), deduction |-> 1260000],
       [threshold |-> 88000000,   inf |-> FALSE, rate |-> Q(24, 100), deduction |-> 5760000],
       [threshold |-> 150000000,  inf |-> FALSE, rate |-> Q(35, 100), deduction |-> 15440000],
       [threshold |-> 300000000,  inf |-> FALSE, rate |-> Q(38, 100), deduction |-> 19940000],
       [threshold |-> 500000000,  inf |-> FALSE, rate |-> Q(40, 100), deduction |-> 25940000],
       [threshold |-> 1000000000, inf |-> FALSE, rate |-> Q(42, 100), deduction |-> 35940000],
       [threshold |-> 0,          inf |-> TRUE,  rate |-> Q(45, 100), deduction |-> 65940000] >>

-----------------------------------------------------------------------------
(* Pure tax helpers.                                                       *)

\* A faulty variant: the third tier starts from the wrong base amount.
get_pension_income_deduction_amount_WrongBase(pension_income, include_deduction_flag) ==
    IF ~include_deduction_flag THEN Zero
    ELSE IF Leq(pension_income, I(3500000)) THEN pension_income
    ELSE IF Leq(pension_income, I(7000000))
        THEN Add(I(3500000), Mul(Sub(pension_income, I(3500000)), Q(4, 10)))
    ELSE IF Leq(pension_income, I(14000000))
        THEN Add(I(4500000), Mul(Sub(pension_income, I(7000000)), Q(2, 10)))
    ELSE Min(Add(I(6300000), Mul(Sub(pension_income, I(14000000)), Q(1, 10))), I(9000000))

\* get_pension_income_deduction_amount(pension_income, include_deduction_flag)
get_pension_income_deduction_amount(pension_income, include_deduction_flag) ==
    IF ~include_deduction_flag THEN Zero
    ELSE IF Leq(pension_income, I(3500000)) THEN pension_income
    ELSE IF Leq(pension_income, I(7000000))
        THEN Add(I(3500000), Mul(Sub(pension_income, I(3500000)), Q(4, 10)))
    ELSE IF Leq(pension_income, I(14000000))
        THEN Add(I(4900000), Mul(Sub(pension_income, I(7000000)), Q(2, 10)))
    ELSE Min(Add(I(6300000), Mul(Sub(pension_income, I(14000000)), Q(1, 10))), I(9000000))

\* `taxable_income <= threshold` for one bracket
InBracket(taxable_income, b) == b.inf \/ Leq(taxable_income, I(b.threshold))

\* `taxable_income * rate - deduction` for one bracket
BracketFormula(taxable_income, b) == Sub(Mul(taxable_income, b.rate), I(b.deduction))

\* The first bracket of the table whose threshold is not below the income.
RECURSIVE FirstBracket(_, _)
FirstBracket(taxable_income, i) ==
    IF InBracket(taxable_income, COMPREHENSIVE_TAX_BRACKETS[i]) THEN i
    ELSE FirstBracket(taxable_income, i + 1)

\* get_comprehensive_tax(taxable_income), include_local_tax at its default True
get_comprehensive_tax(taxable_income) ==
    IF Leq(taxable_income, Zero) THEN Zero
    ELSE Mul(BracketFormula(taxable_income,
                            COMPREHENSIVE_TAX_BRACKETS[FirstBracket(taxable_income, 1)]),
             Add(One, LOCAL_TAX_RATE))

\* The age band's flat rate of the low-rate regime.
LowRate(current_age) ==
    IF current_age < 70 THEN PENSION_TAX_RATES.under_70
    ELSE IF current_age < 80 THEN PENSION_TAX_RATES.under_80
    ELSE PENSION_TAX_RATES.over_80

\* The test that sends a year to the low-rate regime.
LowRateApplies(private_pension_gross, user_inputs) ==
    Leq(private_pension_gross, I(PENSION_TAX_THRESHOLD))

\* tax_on_private_pension_comp: the marginal comprehensive tax of the withdrawal
ComprehensiveCandidate(private_pension_gross, user_inputs) ==
    LET total_pension_income_for_comp ==
            Add(private_pension_gross,
                I(user_inputs.other_private_pension_income + user_inputs.public_pension_income))
        taxable_pension_income_for_comp ==
            Sub(total_pension_income_for_comp,
                get_pension_income_deduction_amount(total_pension_income_for_comp,
                                                    user_inputs.include_pension_deduction))
        total_other_pension_income_for_deduction ==
            I(user_inputs.other_private_pension_income + user_inputs.public_pension_income)
        taxable_other_pension_income_only ==
            Sub(total_other_pension_income_for_deduction,
                get_pension_income_deduction_amount(total_other_pension_income_for_deduction,
                                                    user_inputs.include_pension_deduction))
        taxable_income_without_current_private ==
            Add(taxable_other_pension_income_only, I(user_inputs.other_comprehensive_income))
        tax_without_private_pension == get_comprehensive_tax(taxable_income_without_current_private)
        taxable_all_income ==
            Add(taxable_pension_income_for_comp, I(user_inputs.other_comprehensive_income))
        tax_with_private_pension_comprehensive == get_comprehensive_tax(taxable_all_income)
    IN  Max(Zero, Sub(tax_with_private_pension_comprehensive, tax_without_private_pension))

\* A faulty variant: a tie of the two candidates goes to the comprehensive one.
calculate_annual_pension_tax_TieComprehensive(private_pension_gross, user_inputs, current_age) ==
    IF LowRateApplies(private_pension_gross, user_inputs)
    THEN LET tax == Mul(private_pension_gross, LowRate(current_age))
         IN  [chosen |-> tax, comprehensive |-> tax, separate |-> tax, choice |-> "low_rate"]
    ELSE LET tax_on_private_pension_comp ==
                 ComprehensiveCandidate(private_pension_gross, user_inputs)
             separate_tax == Mul(private_pension_gross, SEPARATE_TAX_RATE)
         IN  IF Leq(tax_on_private_pension_comp, separate_tax)
             THEN [chosen |-> tax_on_private_pension_comp,
                   comprehensive |-> tax_on_private_pension_comp,
                   separate |-> separate_tax, choice |-> "comprehensive"]
             ELSE [chosen |-> separate_tax,
                   comprehensive |-> tax_on_private_pension_comp,
                   separate |-> separate_tax, choice |-> "separate"]

\* calculate_annual_pension_tax(private_pension_gross, user_inputs, current_age).
\* choice: "low_rate", "comprehensive", "separate" stand for the source's labels.
calculate_annual_pension_tax(private_pension_gross, user_inputs, current_age) ==
    IF LowRateApplies(private_pension_gross, user_inputs)
    THEN LET tax == Mul(private_pension_gross, LowRate(current_age))
         IN  [chosen |-> tax, comprehensive |-> tax, separate |-> tax, choice |-> "low_rate"]
    ELSE LET tax_on_private_pension_comp ==
                 ComprehensiveCandidate(private_pension_gross, user_inputs)
             separate_tax == Mul(private_pension_gross, SEPARATE_TAX_RATE)
         IN  IF Lt(tax_on_private_pension_comp, separate_tax)
             THEN [chosen |-> tax_on_private_pension_comp,
                   comprehensive |-> tax_on_private_pension_comp,
                   separate |-> separate_tax, choice |-> "comprehensive"]
             ELSE [chosen |-> separate_tax,
                   comprehensive |-> tax_on_private_pension_comp,
                   separate |-> separate_tax, choice |-> "separate"]

-----------------------------------------------------------------------------
(* Values a variable holds while its part of the program is not running.   *)

NoCall == [fn |-> "none", arg |-> << >>, result |-> << >>]
NoLocal == [payout_year_count |-> 0, raised |-> FALSE]

SimIdle ==
    /\ inputs = << >>
    /\ total_at_retirement = Zero
    /\ non_taxable_wallet = Zero
    /\ taxable_wallet = Zero
    /\ year_offset = 0
    /\ annual_breakdown = << >>
    /\ pc = "idle"
    /\ local = NoLocal

TaxIdle == call = NoCall /\ prev = NoCall

UIIdle == session = << >> /\ user_input_obj = << >> /\ press = << >>

AccIdle == accumulation = << >>

-----------------------------------------------------------------------------
(* The pure tax helpers applied to sampled arguments.  A run applies one    *)
(* helper; of the two one-argument helpers it keeps the latest two calls.  *)

\* The finite thresholds of the bracket table.
Thresholds == { COMPREHENSIVE_TAX_BRACKETS[i].threshold : i \in 1..7 }

\* Taxable incomes handed to get_comprehensive_tax: around zero, around every
\* threshold, between two integers, and deep in the last bracket.
TaxableIncomes ==
    { I(-1), Zero, I(1), Norm(14000000, 1, 2), I(2000000000) }
        \cup { I(t - 1) : t \in Thresholds }
        \cup { I(t) : t \in Thresholds }
        \cup { I(t + 1) : t \in Thresholds }

\* Pension incomes handed to get_pension_income_deduction_amount: around zero,
\* around every tier boundary and around the point where the cap is reached.
PensionIncomes ==
    { Zero, I(1), I(3499999), I(3500000), I(3500001), I(6999999), I(7000000),
      I(7000001), I(13999999), I(14000000), I(14000001), I(40999999),
      I(41000000), I(41000001), I(100000000) }

\* Arguments of calculate_annual_pension_tax.
PensionGrossAmounts ==
    { I(1), I(10000000), I(14999999), I(15000000), Norm(15000000, 1, 2),
      I(15000001), I(40000000), I(200000000) }
OtherPrivatePensionIncomes == { 0, 1, 10000000 }
PublicPensionIncomes == { 0, 5000000 }
OtherComprehensiveIncomes == { 0, 20000000, 50000000 }
TaxAges == { 69, 70, 79, 80 }

TaxInit == SimIdle /\ TaxIdle /\ UIIdle /\ AccIdle

CallComprehensiveTax ==
    \E x \in TaxableIncomes :
        /\ call.fn \in {"none", "get_comprehensive_tax"}
        /\ call' = [fn |-> "get_comprehensive_tax",
                    arg |-> [taxable_income |-> x],
                    result |-> get_comprehensive_tax(x)]
        /\ prev' = IF call.fn = "get_comprehensive_tax" THEN call ELSE NoCall
        /\ UNCHANGED << simVars, uiVars, accVars >>

CallPensionIncomeDeduction ==
    \E x \in PensionIncomes, flag \in BOOLEAN :
        /\ call.fn \in {"none", "get_pension_income_deduction_amount"}
        /\ call' = [fn |-> "get_pension_income_deduction_amount",
                    arg |-> [pension_income |-> x, include_deduction_flag |-> flag],
                    result |-> get_pension_income_deduction_amount(x, flag)]
        /\ prev' = IF call.fn = "get_pension_income_deduction_amount" THEN call ELSE NoCall
        /\ UNCHANGED << simVars, uiVars, accVars >>

CallAnnualPensionTax ==
    \E gross \in PensionGrossAmounts, o \in OtherPrivatePensionIncomes,
       p \in PublicPensionIncomes, c \in OtherComprehensiveIncomes,
       flag \in BOOLEAN, age \in TaxAges :
        LET ui == [other_private_pension_income |-> o, public_pension_income |-> p,
                   other_comprehensive_income |-> c, include_pension_deduction |-> flag]
        IN  /\ call.fn = "none"
            /\ call' = [fn |-> "calculate_annual_pension_tax",
                        arg |-> [private_pension_gross |-> gross, user_inputs |-> ui,
                                 current_age |-> age],
                        result |-> calculate_annual_pension_tax(gross, ui, age)]
            /\ prev' = NoCall
            /\ UNCHANGED << simVars, uiVars, accVars >>

TaxNext == CallComprehensiveTax \/ CallPensionIncomeDeduction \/ CallAnnualPensionTax

TaxSpec == TaxInit /\ [][TaxNext]_vars

-----------------------------------------------------------------------------
(* C2: whenever calculate_annual_pension_tax is called with a withdrawal   *)
(* w > 0, the regime is low-rate if w plus the other pension income is at  *)
(* most 15,000,000, and otherwise the comparison is made and the chosen    *)
(* tax is the smaller of the comprehensive and the separate candidate.     *)
C2_RegimeByCombinedIncome ==
    (call.fn = "calculate_annual_pension_tax" /\ Gt(call.arg.private_pension_gross, Zero)) =>
        LET w == call.arg.private_pension_gross
            o == call.arg.user_inputs.other_private_pension_income
                 + call.arg.user_inputs.public_pension_income
            r == call.result
        IN  IF Leq(Add(w, I(o)), I(PENSION_TAX_THRESHOLD))
            THEN r.choice = "low_rate"
            ELSE /\ r.choice \in {"comprehensive", "separate"}
                 /\ r.chosen = Min(r.comprehensive, r.separate)

-----------------------------------------------------------------------------
(* C9: get_comprehensive_tax is 0 for an income <= 0, is non-decreasing in *)
(* the income, and is continuous at every bracket threshold: the formula   *)
(* of the bracket that ends at a threshold and the formula of the next     *)
(* bracket give the same tax there.                                        *)
C9_BracketsMonotoneContinuous ==
    call.fn = "get_comprehensive_tax" =>
        LET x == call.arg.taxable_income
        IN  /\ Leq(x, Zero) => call.result = Zero
            /\ Leq(Zero, call.result)
            /\ \A i \in 1..7 :
                x = I(COMPREHENSIVE_TAX_BRACKETS[i].threshold) =>
                    /\ BracketFormula(x, COMPREHENSIVE_TAX_BRACKETS[i])
                         = BracketFormula(x, COMPREHENSIVE_TAX_BRACKETS[i + 1])
                    /\ call.result
                         = Mul(BracketFormula(x, COMPREHENSIVE_TAX_BRACKETS[i + 1]), Q(11, 10))
            /\ (prev.fn = "get_comprehensive_tax" /\ Leq(prev.arg.taxable_income, x)) =>
                    Leq(prev.result, call.result)

\* The tax just below a threshold, then the tax at the threshold.
C9_Witness ==
    /\ prev.fn = "get_comprehensive_tax"
    /\ call.fn = "get_comprehensive_tax"
    /\ prev.arg.taxable_income = I(13999999)
    /\ call.arg.taxable_income = I(14000000)
    /\ Lt(prev.result, call.result)

-----------------------------------------------------------------------------
(* C10: with the flag enabled get_pension_income_deduction_amount is       *)
(* non-decreasing in the income, has no jump (incomes one won apart get    *)
(* deductions at most one won apart, at the tier boundaries 3,500,000 /    *)
(* 7,000,000 / 14,000,000 as elsewhere), never exceeds 9,000,000 and never *)
(* exceeds an income >= 0; with the flag disabled it returns 0.            *)
C10_DeductionShape ==
    call.fn = "get_pension_income_deduction_amount" =>
        LET x == call.arg.pension_income
        IN  /\ ~call.arg.include_deduction_flag => call.result = Zero
            /\ call.arg.include_deduction_flag =>
                /\ Leq(call.result, I(9000000))
                /\ Leq(Zero, x) => Leq(call.result, x)
                /\ x = I(3500000) => call.result = I(3500000)
                /\ x = I(7000000) => call.result = I(4900000)
                /\ x = I(14000000) => call.result = I(6300000)
            /\ ( /\ prev.fn = "get_pension_income_deduction_amount"
                 /\ prev.arg.include_deduction_flag
                 /\ call.arg.include_deduction_flag
                 /\ Leq(prev.arg.pension_income, x) ) =>
                    /\ Leq(prev.result, call.result)
                    /\ x = Add(prev.arg.pension_income, One) =>
                           Leq(Sub(call.result, prev.result), One)

\* The deduction at a tier boundary, then the deduction one won above it.
C10_Witness ==
    /\ prev.fn = "get_pension_income_deduction_amount"
    /\ call.fn = "get_pension_income_deduction_amount"
    /\ prev.arg.include_deduction_flag /\ call.arg.include_deduction_flag
    /\ prev.arg.pension_income = I(7000000)
    /\ call.arg.pension_income = I(7000001)
    /\ Lt(prev.result, call.result)

-----------------------------------------------------------------------------
(* C12: when calculate_annual_pension_tax takes the comparison branch, the *)
(* comprehensive candidate is max(0, tax(all pension income net of its     *)
(* deduction + other comprehensive income) - tax(other pension income net  *)
(* of its deduction + other comprehensive income)), the separate candidate *)
(* is the withdrawal * 16.5%, the regime is comprehensive exactly when the *)
(* comprehensive candidate is strictly smaller, a tie yields separate, and *)
(* the chosen tax is the candidate of the returned regime.                 *)
C12_ComprehensiveOrSeparate ==
    (call.fn = "calculate_annual_pension_tax" /\ call.result.choice # "low_rate") =>
        LET w == call.arg.private_pension_gross
            ui == call.arg.user_inputs
            r == call.result
            other == I(ui.other_private_pension_income + ui.public_pension_income)
            all == Add(w, other)
            net(x) == Sub(x, get_pension_income_deduction_amount(x, ui.include_pension_deduction))
            delta == Sub(get_comprehensive_tax(Add(net(all), I(ui.other_comprehensive_income))),
                         get_comprehensive_tax(Add(net(other), I(ui.other_comprehensive_income))))
            comp == IF Lt(delta, Zero) THEN Zero ELSE delta
            sep == MulQ(w, 165, 1000)
        IN  /\ r.choice \in {"comprehensive", "separate"}
            /\ r.comprehensive = comp
            /\ r.separate = sep
            /\ r.choice = "comprehensive" <=> Lt(comp, sep)
            /\ comp = sep => r.choice = "separate"
            /\ r.chosen = IF r.choice = "comprehensive" THEN comp ELSE sep

\* A tie: the withdrawal lies wholly in the 15% bracket, whose rate with the
\* local tax is 16.5%.
C12_Witness ==
    /\ call.fn = "calculate_annual_pension_tax"
    /\ call.arg.private_pension_gross = I(15000001)
    /\ call.result.comprehensive = call.result.separate
    /\ Gt(call.result.separate, Zero)
    /\ call.result.choice = "separate"

-----------------------------------------------------------------------------
(* The accumulation phase and the main script's hand-over to the payout    *)
(* simulation.                                                             *)

\* inputs.pre_retirement_return / 100.0 and inputs.post_retirement_return / 100.0
pre_ret_rate(ui) == Div(ui.pre_retirement_return, I(100))
post_ret_rate(ui) == Div(ui.post_retirement_return, I(100))

\* current_value after `years` rounds of the accumulation loop.
\* contribution_timing: "start_of_year" stands for the source's '연초',
\* "end_of_year" for '연말'.
RECURSIVE Accumulate(_, _)
Accumulate(ui, years) ==
    IF years <= 0 THEN Zero
    ELSE LET current_value == Accumulate(ui, years - 1)
         IN  IF ui.contribution_timing = "start_of_year"
             THEN Mul(Add(current_value, I(ui.annual_contribution)), Add(One, pre_ret_rate(ui)))
             ELSE Add(Mul(current_value, Add(One, pre_ret_rate(ui))), I(ui.annual_contribution))

\* calculate_total_at_retirement(inputs): the terminal balance
calculate_total_at_retirement(ui) == Accumulate(ui, ui.retirement_age - ui.start_age)

\* total_non_deductible_paid as the main script computes it
TotalNonDeductiblePaid(ui) ==
    LET contribution_years == ui.retirement_age - ui.start_age
        non_deductible_from_annual == ui.non_deductible_contribution * contribution_years
    IN  non_deductible_from_annual + ui.other_non_deductible_total

\* The button's validation: no error is appended.
Validated(ui) ==
    /\ ui.start_age < ui.retirement_age /\ ui.retirement_age < ui.end_age
    /\ ~(ui.retirement_age < MIN_RETIREMENT_AGE)
    /\ ~(ui.retirement_age - ui.start_age < MIN_CONTRIBUTION_YEARS)
    /\ ~(ui.end_age - ui.retirement_age < MIN_PAYOUT_YEARS)

-----------------------------------------------------------------------------
(* run_payout_simulation: one loop iteration.                              *)

\* A faulty variant: the end age is counted as a payout year of its own.
payout_years_Inclusive(ui) == ui.end_age - ui.retirement_age + 1

\* payout_years = inputs.end_age - inputs.retirement_age
payout_years(ui) == ui.end_age - ui.retirement_age

\* The branch of the withdrawal computation an iteration takes.
PayoutBranch(remaining_years, rate) ==
    IF remaining_years <= 0 THEN "no_years"
    ELSE IF rate = Zero THEN "zero_rate"
    ELSE IF Leq(rate, I(-1)) THEN "liquidate"
    ELSE "annuity"

\* annuity_factor = ((1 - (1 + r) ** -n) / r) * (1 + r)
AnnuityFactor(remaining_years, rate) ==
    LET annuity_factor_ordinary ==
            Div(Sub(One, PowNeg(Add(One, rate), remaining_years)), rate)
    IN  Mul(annuity_factor_ordinary, Add(One, rate))

\* A faulty variant: the current year is not counted among the remaining ones.
RemainingYears_OneMore(ui, offset) == payout_years(ui) - offset + 1

\* A faulty variant: the years already paid out are not subtracted.
RemainingYears_NotCountedDown(ui, offset) == payout_years(ui)

\* remaining_years = payout_years - year_offset
RemainingYears(ui, offset) == payout_years(ui) - offset

\* annual_payout before the clamp to the balance
TargetPayout(current_balance, remaining_years, rate) ==
    LET branch == PayoutBranch(remaining_years, rate)
    IN  IF branch = "no_years" THEN Zero
        ELSE IF branch = "zero_rate" THEN Div(current_balance, I(remaining_years))
        ELSE IF branch = "liquidate" THEN current_balance
        ELSE LET annuity_factor == AnnuityFactor(remaining_years, rate)
             IN  IF Gt(annuity_factor, Zero) THEN Div(current_balance, annuity_factor)
                 ELSE Zero

\* A faulty variant: the taxable wallet is drawn first.
FromNonTaxable_TaxableFirst(annual_payout, nt_wallet, t_wallet) ==
    Sub(annual_payout, Min(annual_payout, t_wallet))

\* from_non_taxable = min(annual_payout, non_taxable_wallet)
FromNonTaxable(annual_payout, nt_wallet, t_wallet) == Min(annual_payout, nt_wallet)

\* A faulty variant: the limit is applied one year too long.
LimitApplies_OneYearLonger(payout_year_count) == payout_year_count <= 11

\* `if payout_year_count <= 10`
LimitApplies(payout_year_count) == payout_year_count <= 10

\* pension_payout_limit = (current_balance * 1.2) / (11 - payout_year_count)
PayoutLimit(current_balance, payout_year_count) ==
    Div(Mul(current_balance, Q(12, 10)), I(11 - payout_year_count))

\* The numbers an iteration divides by, or raises to a negative power.
Divisors(remaining_years, rate, payout_year_count) ==
    LET branch == PayoutBranch(remaining_years, rate)
    IN  (IF branch = "zero_rate" THEN { I(remaining_years) } ELSE { })
        \cup (IF branch = "annuity" THEN { Add(One, rate), rate } ELSE { })
        \cup (IF branch = "annuity" /\ Add(One, rate) # Zero /\ rate # Zero
                 /\ Gt(AnnuityFactor(remaining_years, rate), Zero)
              THEN { AnnuityFactor(remaining_years, rate) } ELSE { })
        \cup (IF LimitApplies(payout_year_count) THEN { I(11 - payout_year_count) } ELSE { })

\* The tax decision of a year: "none" stands for the source's '해당없음'.
NoTax == [chosen |-> Zero, comprehensive |-> Zero, separate |-> Zero, choice |-> "none"]

\* The locals of an iteration are gathered in a record, one group of source
\* lines at a time; each operator below adds the locals its lines assign.

\* Entering the loop body (after the balance test).
EnterYear(ui, nt_wallet, t_wallet, offset) ==
    [payout_year_count |-> offset + 1,
     remaining_years |-> RemainingYears(ui, offset),
     rate |-> post_ret_rate(ui),
     current_age |-> ui.retirement_age + offset,
     current_balance |-> Add(nt_wallet, t_wallet),
     non_taxable_before |-> nt_wallet,
     taxable_before |-> t_wallet]

\* A zero among the divisors raises ZeroDivisionError.
WithDivisors(l) ==
    l @@ [divisors |-> Divisors(l.remaining_years, l.rate, l.payout_year_count)]
WithRaised(l) == l @@ [raised |-> Zero \in l.divisors]

\* annual_payout = min(annual_payout, current_balance)
WithPayout(l) ==
    l @@ [branch |-> PayoutBranch(l.remaining_years, l.rate),
          annual_payout |-> Min(TargetPayout(l.current_balance, l.remaining_years, l.rate),
                                l.current_balance)]

WithFromNonTaxable(l) ==
    l @@ [from_non_taxable |->
              FromNonTaxable(l.annual_payout, l.non_taxable_before, l.taxable_before)]

\* from_taxable = annual_payout - from_non_taxable
WithFromTaxable(l) == l @@ [from_taxable |-> Sub(l.annual_payout, l.from_non_taxable)]

\* The withdrawal limit of the first payout years.
WithLimit(l) ==
    l @@ [limited |-> LimitApplies(l.payout_year_count),
          pension_payout_limit |->
              IF LimitApplies(l.payout_year_count)
              THEN PayoutLimit(l.current_balance, l.payout_year_count)
              ELSE Zero]

\* A faulty variant: the recognized amount is not cut down to the limit.
WithRecognized_Uncapped(l) ==
    LET over == l.limited /\ Gt(l.from_taxable, l.pension_payout_limit)
    IN  l @@ [pension_payout_over_limit |->
                  IF over THEN Sub(l.from_taxable, l.pension_payout_limit) ELSE Zero,
              pension_payout_under_limit |-> l.from_taxable]

\* `if from_taxable > pension_payout_limit`; without the branch the excess
\* is not computed, which the record shows as 0.
WithRecognized(l) ==
    LET over == l.limited /\ Gt(l.from_taxable, l.pension_payout_limit)
    IN  l @@ [pension_payout_over_limit |->
                  IF over THEN Sub(l.from_taxable, l.pension_payout_limit) ELSE Zero,
              pension_payout_under_limit |->
                  IF over THEN l.pension_payout_limit ELSE l.from_taxable]

\* tax_on_limit_excess = pension_payout_over_limit * OTHER_INCOME_TAX_RATE
WithExcessTax(l) ==
    l @@ [tax_on_limit_excess |-> Mul(l.pension_payout_over_limit, OTHER_INCOME_TAX_RATE)]

\* A faulty variant: the regime tax is computed on the whole gross withdrawal.
WithPensionTax_OnGrossPayout(ui, l) ==
    l @@ [pension_tax_info |->
              IF Gt(l.annual_payout, Zero)
              THEN calculate_annual_pension_tax(l.annual_payout, ui, l.current_age)
              ELSE NoTax]

\* `if pension_payout_under_limit > 0: pension_tax_info = calculate_annual_pension_tax(...)`
WithPensionTax(ui, l) ==
    l @@ [pension_tax_info |->
              IF Gt(l.pension_payout_under_limit, Zero)
              THEN calculate_annual_pension_tax(l.pension_payout_under_limit, ui, l.current_age)
              ELSE NoTax]

\* total_tax_paid = pension_tax + tax_on_limit_excess
WithTotalTax(l) ==
    l @@ [total_tax_paid |-> Add(l.pension_tax_info.chosen, l.tax_on_limit_excess)]

\* annual_take_home = annual_payout - total_tax_paid
WithTakeHome(l) == l @@ [annual_take_home |-> Sub(l.annual_payout, l.total_tax_paid)]

\* Each wallet's remainder compounds for the year.
WithWallets(l) ==
    l @@ [non_taxable_after |->
              Mul(Sub(l.non_taxable_before, l.from_non_taxable), Add(One, l.rate)),
          taxable_after |->
              Mul(Sub(l.taxable_before, l.from_taxable), Add(One, l.rate))]

\* The loop body from the first division on.
YearBody(ui, l) ==
    IF l.raised THEN l
    ELSE WithWallets(WithTakeHome(WithTotalTax(WithPensionTax(ui,
         WithExcessTax(WithRecognized(WithLimit(WithFromTaxable(WithFromNonTaxable(
         WithPayout(l))))))))))

\* The locals of the iteration that starts from the given wallets.
Iteration(ui, nt_wallet, t_wallet, offset) ==
    YearBody(ui, WithRaised(WithDivisors(EnterYear(ui, nt_wallet, t_wallet, offset))))

\* The row appended to annual_breakdown.  The field names stand for the
\* source's column titles, in the order of the source.
YearRecord(it) ==
    [age |-> it.current_age,
     gross_payout |-> it.annual_payout,
     take_home |-> it.annual_take_home,
     total_tax |-> it.total_tax_paid,
     pension_tax |-> it.pension_tax_info.chosen,
     excess_tax |-> it.tax_on_limit_excess,
     year_end_balance |-> Add(it.non_taxable_after, it.taxable_after),
     taxable_pension |-> it.pension_payout_under_limit,
     comprehensive |-> it.pension_tax_info.comprehensive,
     separate |-> it.pension_tax_info.separate,
     choice |-> it.pension_tax_info.choice]

-----------------------------------------------------------------------------
(* The sampled, validated inputs of a simulation run.                      *)

\* The longest contribution period and the longest payout period sampled.
MaxContributionYears == 5
MaxPayoutYears == 11

RetirementAges == { 60, 75 }
\* Returns in percent, as the sidebar stores them.
PreReturns == { Zero, I(100) }
PostReturns == { Zero, I(-50), I(100), I(-100), I(-200) }
AnnualContributions == { 6000000 }
NonDeductibleContributions == { 0, 3000000 }
OtherNonDeductibleTotals == { 0, 500000000 }
SimOtherPrivatePensionIncomes == { 0, 10000000 }
SimOtherComprehensiveIncomes == { 0, 50000000 }
ContributionTimings == { "start_of_year", "end_of_year" }

UserInputsAt(ra) ==
    { [start_age |-> sa, retirement_age |-> ra, end_age |-> ea,
       pre_retirement_return |-> pre, post_retirement_return |-> post,
       annual_contribution |-> ac, non_deductible_contribution |-> nd,
       other_non_deductible_total |-> ond,
       other_private_pension_income |-> opp, public_pension_income |-> 0,
       other_comprehensive_income |-> oci,
       contribution_timing |-> ct, include_pension_deduction |-> flag] :
        sa \in (ra - MaxContributionYears)..(ra - MIN_CONTRIBUTION_YEARS),
        ea \in (ra + MIN_PAYOUT_YEARS)..(ra + MaxPayoutYears),
        pre \in PreReturns, post \in PostReturns,
        ac \in AnnualContributions, nd \in NonDeductibleContributions,
        ond \in OtherNonDeductibleTotals,
        opp \in SimOtherPrivatePensionIncomes, oci \in SimOtherComprehensiveIncomes,
        ct \in ContributionTimings, flag \in BOOLEAN }

\* A positive return doubles both wallets every year; when the non-taxable
\* principal exceeds the balance the two wallets then grow apart beyond the
\* integer range, so those runs are sampled at the non-positive returns only.
InRange(ui) ==
    \/ Leq(ui.post_retirement_return, Zero)
    \/ Leq(I(TotalNonDeductiblePaid(ui)), calculate_total_at_retirement(ui))

UserInputs ==
    { ui \in UNION { UserInputsAt(ra) : ra \in RetirementAges } :
        Validated(ui) /\ InRange(ui) }

-----------------------------------------------------------------------------
(* run_payout_simulation as the main script calls it.                      *)

\* The state on entry to the loop: the main script calls the simulation for
\* validated inputs whose terminal balance is positive.
Init ==
    /\ inputs \in UserInputs
    /\ total_at_retirement = calculate_total_at_retirement(inputs)
    /\ Gt(total_at_retirement, Zero)
    /\ non_taxable_wallet = I(TotalNonDeductiblePaid(inputs))
    /\ taxable_wallet = Sub(total_at_retirement, non_taxable_wallet)
    /\ year_offset = 0
    /\ annual_breakdown = << >>
    /\ pc = "loop"
    /\ local = NoLocal
    /\ TaxIdle
    /\ UIIdle
    /\ AccIdle

\* range(payout_years) is exhausted: return the frame.
LoopExit ==
    /\ pc = "loop"
    /\ ~(year_offset < payout_years(inputs))
    /\ pc' = "done"
    /\ UNCHANGED << inputs, total_at_retirement, non_taxable_wallet, taxable_wallet,
                    year_offset, annual_breakdown, local, taxVars, uiVars, accVars >>

\* `if current_balance <= 0: break`
BalanceBreak ==
    /\ pc = "loop"
    /\ year_offset < payout_years(inputs)
    /\ Leq(Add(non_taxable_wallet, taxable_wallet), Zero)
    /\ pc' = "done"
    /\ UNCHANGED << inputs, total_at_retirement, non_taxable_wallet, taxable_wallet,
                    year_offset, annual_breakdown, local, taxVars, uiVars, accVars >>

\* One simulated payout year: withdraw, tax, advance the wallets, emit the row.
PayoutYear ==
    /\ pc = "loop"
    /\ year_offset < payout_years(inputs)
    /\ Gt(Add(non_taxable_wallet, taxable_wallet), Zero)
    /\ \E it \in { Iteration(inputs, non_taxable_wallet, taxable_wallet, year_offset) } :
           IF it.raised
           THEN /\ pc' = "ZeroDivisionError"
                /\ local' = it
                /\ UNCHANGED << non_taxable_wallet, taxable_wallet, year_offset,
                                annual_breakdown >>
           ELSE /\ non_taxable_wallet' = it.non_taxable_after
                /\ taxable_wallet' = it.taxable_after
                /\ annual_breakdown' = Append(annual_breakdown, YearRecord(it))
                /\ year_offset' = year_offset + 1
                /\ local' = it
                /\ pc' = "loop"
    /\ UNCHANGED << inputs, total_at_retirement, taxVars, uiVars, accVars >>

Next == PayoutYear \/ BalanceBreak \/ LoopExit

Spec == Init /\ [][Next]_vars

-----------------------------------------------------------------------------
(* C1: in run_payout_simulation both wallets are >= 0 at the start and     *)
(* after every simulated payout year.                                      *)
C1_WalletsNonNegative ==
    pc \in {"loop", "done"} =>
        /\ Leq(Zero, non_taxable_wallet)
        /\ Leq(Zero, taxable_wallet)

\* A simulated year has run to its end (no exception was raised in it).
Executed == local.payout_year_count > 0 /\ ~local.raised

\* C1's case: the non-taxable principal paid in exceeds the balance at retirement.
C1_Overfunded == pc = "loop" /\ Gt(non_taxable_wallet, total_at_retirement)

-----------------------------------------------------------------------------
(* C3: in every payout year the taxable wallet is drawn on only if the     *)
(* whole non-taxable balance of that year is withdrawn, and the two parts  *)
(* add up to the gross withdrawal, which is the one the record shows.      *)
C3_WithdrawalOrder ==
    Executed =>
        /\ Gt(local.from_taxable, Zero) => local.from_non_taxable = local.non_taxable_before
        /\ Add(local.from_non_taxable, local.from_taxable) = local.annual_payout
        /\ annual_breakdown[Len(annual_breakdown)].gross_payout = local.annual_payout

\* A year that empties the non-taxable wallet and goes on into the taxable one.
C3_Witness ==
    /\ Executed
    /\ Gt(local.from_non_taxable, Zero)
    /\ Gt(local.from_taxable, Zero)
    /\ local.from_non_taxable = local.non_taxable_before

-----------------------------------------------------------------------------
(* C4: in a payout year k <= 10 the recognized taxable withdrawal is at    *)
(* most current_balance * 1.2 / (11 - k) and the excess is from_taxable    *)
(* minus the recognized amount (0 within the limit); in a year k > 10 all  *)
(* of from_taxable is recognized and the excess and its tax are 0; always  *)
(* recognized + excess = from_taxable.                                     *)
C4_WithdrawalCap ==
    Executed =>
        LET k == local.payout_year_count
            recognized == local.pension_payout_under_limit
            excess == local.pension_payout_over_limit
        IN  /\ k <= 10 =>
                LET limit == Div(Mul(local.current_balance, Q(12, 10)), I(11 - k))
                IN  /\ Leq(recognized, limit)
                    /\ excess = IF Gt(local.from_taxable, limit)
                                THEN Sub(local.from_taxable, limit) ELSE Zero
                    /\ local.tax_on_limit_excess = Mul(excess, Q(165, 1000))
            /\ k > 10 =>
                /\ recognized = local.from_taxable
                /\ excess = Zero
                /\ local.tax_on_limit_excess = Zero
            /\ Add(recognized, excess) = local.from_taxable
            /\ annual_breakdown[Len(annual_breakdown)].taxable_pension = recognized

\* The eleventh year of a run whose first year was cut down to the limit.
C4_Witness ==
    /\ Executed
    /\ local.payout_year_count = 11
    /\ Gt(local.from_taxable, Zero)
    /\ Gt(annual_breakdown[1].excess_tax, Zero)
    /\ Lt(annual_breakdown[1].taxable_pension, annual_breakdown[1].gross_payout)

-----------------------------------------------------------------------------
(* C5: with post_retirement_return = 0, balance B > 0 and n payout years,  *)
(* every record's gross withdrawal is B/n, the year-end balance is         *)
(* positive in the records before the n-th and 0 in the n-th, and the run  *)
(* ends with exactly n records.                                            *)
C5_ZeroRateAnnuity ==
    (pc \in {"loop", "done"} /\ inputs.post_retirement_return = Zero) =>
        LET n == inputs.end_age - inputs.retirement_age
        IN  /\ \A i \in 1..Len(annual_breakdown) :
                /\ annual_breakdown[i].gross_payout = Div(total_at_retirement, I(n))
                /\ i < n => Gt(annual_breakdown[i].year_end_balance, Zero)
                /\ i = n => annual_breakdown[i].year_end_balance = Zero
            /\ Len(annual_breakdown) <= n
            /\ pc = "done" => Len(annual_breakdown) = n

\* A finished zero-rate run of eleven years.
C5_Witness ==
    /\ pc = "done"
    /\ inputs.post_retirement_return = Zero
    /\ inputs.end_age - inputs.retirement_age = 11
    /\ Len(annual_breakdown) = 11

-----------------------------------------------------------------------------
(* C6: run_payout_simulation terminates (every step of the loop returns or *)
(* advances a counter bounded by the payout years); it emits at most       *)
(* end_age - retirement_age records; the i-th record has age               *)
(* retirement_age + i - 1; a record is emitted only for a year that starts *)
(* with a positive total balance, so no record follows one whose year-end  *)
(* balance is <= 0.                                                        *)
C6_Shape ==
    pc # "idle" =>
        /\ Len(annual_breakdown) <= inputs.end_age - inputs.retirement_age
        /\ \A i \in 1..Len(annual_breakdown) :
            /\ annual_breakdown[i].age = inputs.retirement_age + i - 1
            /\ i < Len(annual_breakdown) => Gt(annual_breakdown[i].year_end_balance, Zero)
        /\ Executed => Gt(local.current_balance, Zero)
        /\ Len(annual_breakdown) > 0 => Gt(total_at_retirement, Zero)

\* Every step of the loop either returns or moves on to the next year and
\* emits one record; after the return nothing changes.
C6_Progress ==
    /\ pc = "loop" =>
        \/ pc' = "done" /\ annual_breakdown' = annual_breakdown
        \/ /\ pc' = "loop"
           /\ year_offset' = year_offset + 1
           /\ Len(annual_breakdown') = Len(annual_breakdown) + 1
    /\ pc = "done" => UNCHANGED vars

\* The loop counter never passes the number of payout years, and the loop is
\* either running or has returned.
C6_Bounded ==
    pc # "idle" =>
        /\ pc \in {"loop", "done"}
        /\ year_offset <= inputs.end_age - inputs.retirement_age
        /\ Len(annual_breakdown) = year_offset

C6_RecordStream == [](C6_Shape /\ C6_Bounded) /\ [][C6_Progress]_vars

\* A run that ended early: the balance was used up before the last year.
C6_Witness ==
    /\ pc = "done"
    /\ Len(annual_breakdown) >= 1
    /\ Len(annual_breakdown) < inputs.end_age - inputs.retirement_age
    /\ Leq(annual_breakdown[Len(annual_breakdown)].year_end_balance, Zero)

-----------------------------------------------------------------------------
(* C7: no division of the payout loop has a zero divisor: remaining_years  *)
(* >= 1 in every iteration, 11 - k >= 1 whenever the limit is computed,    *)
(* the annuity factor is used only when r # 0, r > -1 and the factor is    *)
(* > 0; no iteration raises ZeroDivisionError.                             *)
C7_NoZeroDivisor ==
    /\ pc # "ZeroDivisionError"
    /\ local.payout_year_count > 0 =>
        /\ ~local.raised
        /\ local.remaining_years >= 1
        /\ Zero \notin local.divisors
        /\ local.limited => 11 - local.payout_year_count >= 1
        /\ local.branch = "annuity" =>
            /\ local.rate # Zero
            /\ Gt(local.rate, I(-1))
            /\ Gt(AnnuityFactor(local.remaining_years, local.rate), Zero)
        /\ local.branch = "zero_rate" => local.rate = Zero
        /\ local.branch = "liquidate" => local.annual_payout = local.current_balance

\* The tenth year of an annuity at a negative rate: the limit divides by 11 - 10.
C7_Witness ==
    /\ Executed
    /\ local.branch = "annuity"
    /\ Lt(local.rate, Zero)
    /\ local.payout_year_count = 10
    /\ I(1) \in local.divisors

-----------------------------------------------------------------------------
(* C13: in every payout record of a run that starts from non-negative      *)
(* wallets the total tax (regime tax + excess tax) is >= 0 and at most     *)
(* 16.5% of the amount withdrawn from the taxable wallet, hence at most    *)
(* 16.5% of the gross withdrawal; the after-tax payout is >= 0 and at most *)
(* the gross payout; a year whose withdrawal comes wholly from the         *)
(* non-taxable wallet has total tax 0 and the regime "none".               *)
C13_StartNonNegative ==
    /\ pc \in {"loop", "done"}
    /\ Leq(Zero, I(TotalNonDeductiblePaid(inputs)))
    /\ Leq(I(TotalNonDeductiblePaid(inputs)), total_at_retirement)

C13_TaxBurdenBound ==
    (Executed /\ C13_StartNonNegative) =>
        LET row == annual_breakdown[Len(annual_breakdown)]
        IN  /\ row.total_tax = Add(row.pension_tax, row.excess_tax)
            /\ row.total_tax = local.total_tax_paid
            /\ Leq(Zero, row.total_tax)
            /\ Leq(row.total_tax, MulQ(local.from_taxable, 165, 1000))
            /\ Leq(row.total_tax, MulQ(row.gross_payout, 165, 1000))
            /\ row.take_home = Sub(row.gross_payout, row.total_tax)
            /\ Leq(Zero, row.take_home)
            /\ Leq(row.take_home, row.gross_payout)
            /\ (local.from_taxable = Zero) =>
                   row.total_tax = Zero /\ row.choice = "none"

\* A run whose first year is drawn wholly from the non-taxable wallet and
\* whose latest year draws on the taxable wallet and is taxed.
C13_Witness ==
    /\ Executed /\ C13_StartNonNegative
    /\ Gt(annual_breakdown[1].gross_payout, Zero)
    /\ annual_breakdown[1].taxable_pension = Zero
    /\ annual_breakdown[1].choice = "none"
    /\ Gt(local.from_taxable, Zero)
    /\ Gt(local.total_tax_paid, Zero)
    /\ Lt(local.annual_take_home, local.annual_payout)

-----------------------------------------------------------------------------
(* C14: at every post-retirement rate a run that reaches the last          *)
(* scheduled payout year with a positive balance withdraws the whole       *)
(* balance in it and records a year-end balance of 0; at a rate <= -100%   *)
(* the first year withdraws the whole balance and the run emits exactly    *)
(* one record.                                                             *)
C14_FullLiquidation ==
    pc \in {"loop", "done"} =>
        LET n == inputs.end_age - inputs.retirement_age
            row == annual_breakdown[Len(annual_breakdown)]
        IN  /\ (Executed /\ local.payout_year_count = n) =>
                /\ Gt(local.current_balance, Zero)
                /\ row.gross_payout = local.current_balance
                /\ row.year_end_balance = Zero
            /\ Leq(inputs.post_retirement_return, I(-100)) =>
                /\ Len(annual_breakdown) <= 1
                /\ pc = "done" => Len(annual_breakdown) = 1
                /\ Executed =>
                    /\ local.payout_year_count = 1
                    /\ row.gross_payout = local.current_balance
                    /\ row.gross_payout = total_at_retirement
                    /\ row.year_end_balance = Zero

\* A finished annuity at a non-zero rate above -100% that paid out in every
\* scheduled year, the balance still positive before the last one.
C14_Witness ==
    /\ pc = "done"
    /\ Executed
    /\ local.branch = "annuity"
    /\ Len(annual_breakdown) = inputs.end_age - inputs.retirement_age
    /\ local.payout_year_count = Len(annual_breakdown)
    /\ Gt(annual_breakdown[Len(annual_breakdown)].gross_payout, Zero)
    /\ annual_breakdown[Len(annual_breakdown)].year_end_balance = Zero

-----------------------------------------------------------------------------
(* The sidebar: session state, the widgets' on_change callbacks and the    *)
(* button.  A widget writes its new value under its key, runs its callback *)
(* and the script reruns; the button has no callback and is handled by the *)
(* rerun itself.                                                           *)

\* PROFILES: (pre-retirement, post-retirement) return in percent.  "stable",
\* "neutral", "aggressive", "custom" stand for the source's four keys.
PROFILES ==
    [stable |-> << I(4), I(3) >>, neutral |-> << I(6), I(4) >>,
     aggressive |-> << I(8), I(5) >>, custom |-> << I(6), I(4) >>]

\* The values entered in the sidebar.
StartAgeChoices == { 30, 56 }
RetirementAgeChoices == { 55, 60 }
EndAgeChoices == { 65, 90 }
ProfileChoices == { "stable", "aggressive", "custom" }
ContributionChoices == { 6000000, 9000000 }

\* The keys of the session state that are simulation parameters.
ParameterKeys ==
    { "start_age", "retirement_age", "end_age", "investment_profile",
      "pre_retirement_return", "post_retirement_return", "annual_contribution",
      "auto_calc_non_deductible", "non_deductible_contribution",
      "include_pension_deduction" }

Parameters(ss) == [k \in ParameterKeys |-> ss[k]]

\* UserInput(...) built from the session state by the button.
UserInputOf(ss) ==
    [start_age |-> ss.start_age, retirement_age |-> ss.retirement_age,
     end_age |-> ss.end_age,
     pre_retirement_return |-> ss.pre_retirement_return,
     post_retirement_return |-> ss.post_retirement_return,
     annual_contribution |-> ss.annual_contribution,
     non_deductible_contribution |-> ss.non_deductible_contribution,
     include_pension_deduction |-> ss.include_pension_deduction]

\* reset_calculation_state()
reset_calculation_state(ss) == [ss EXCEPT !.calculated = FALSE]

\* update_from_profile()
update_from_profile(ss) ==
    reset_calculation_state(
        IF ss.investment_profile # "custom"
        THEN [ss EXCEPT !.pre_retirement_return = PROFILES[ss.investment_profile][1],
                        !.post_retirement_return = PROFILES[ss.investment_profile][2]]
        ELSE ss)

\* Python's max(0, k) on integers
MaxInt(a, b) == IF b > a THEN b ELSE a

\* auto_calculate_non_deductible()
auto_calculate_non_deductible(ss) ==
    reset_calculation_state(
        IF ss.auto_calc_non_deductible
        THEN [ss EXCEPT !.non_deductible_contribution =
                            MaxInt(0, ss.annual_contribution - PENSION_SAVING_TAX_CREDIT_LIMIT)]
        ELSE [ss EXCEPT !.non_deductible_contribution = 0])

\* A faulty variant: the end age is adjusted but the flag is not reset.
update_retirement_age_and_end_age_NoReset(ss) ==
    IF ss.end_age < ss.retirement_age + MIN_PAYOUT_YEARS
    THEN [ss EXCEPT !.end_age = ss.retirement_age + MIN_PAYOUT_YEARS]
    ELSE ss

\* update_retirement_age_and_end_age()
update_retirement_age_and_end_age(ss) ==
    LET min_required_end_age == ss.retirement_age + MIN_PAYOUT_YEARS
    IN  IF ss.end_age < min_required_end_age
        THEN [reset_calculation_state(ss) EXCEPT !.end_age = min_required_end_age]
        ELSE reset_calculation_state(ss)

\* toggle_pension_deduction()
toggle_pension_deduction(ss) == reset_calculation_state(ss)

\* initialize_session()
InitialSession ==
    [start_age |-> 30, retirement_age |-> 60, end_age |-> 90,
     annual_contribution |-> 6000000,
     include_pension_deduction |-> FALSE,
     investment_profile |-> "aggressive",
     pre_retirement_return |-> PROFILES["aggressive"][1],
     post_retirement_return |-> PROFILES["aggressive"][2],
     auto_calc_non_deductible |-> TRUE,
     non_deductible_contribution |-> 0,
     calculated |-> FALSE,
     has_calculated_once |-> FALSE]

\* No button press yet.
NoPress == [pressed |-> FALSE, passed |-> FALSE, changed |-> FALSE]

UIInit ==
    /\ session = InitialSession
    /\ user_input_obj = << >>
    /\ press = NoPress
    /\ SimIdle
    /\ TaxIdle
    /\ AccIdle

\* A widget stores a new value under its key.
Edited(key, value) ==
    /\ session[key] # value
    /\ press' = [press EXCEPT !.changed = TRUE]
    /\ UNCHANGED << user_input_obj, simVars, taxVars, accVars >>

ChangeStartAge ==
    \E v \in StartAgeChoices :
        /\ Edited("start_age", v)
        /\ session' = reset_calculation_state([session EXCEPT !.start_age = v])

ChangeRetirementAge ==
    \E v \in RetirementAgeChoices :
        /\ Edited("retirement_age", v)
        /\ session' = update_retirement_age_and_end_age([session EXCEPT !.retirement_age = v])

ChangeEndAge ==
    \E v \in EndAgeChoices :
        /\ Edited("end_age", v)
        /\ session' = reset_calculation_state([session EXCEPT !.end_age = v])

SelectProfile ==
    \E v \in ProfileChoices :
        /\ Edited("investment_profile", v)
        /\ session' = update_from_profile([session EXCEPT !.investment_profile = v])

ChangeAnnualContribution ==
    \E v \in ContributionChoices :
        /\ Edited("annual_contribution", v)
        /\ session' = auto_calculate_non_deductible([session EXCEPT !.annual_contribution = v])

ToggleAutoCalc ==
    /\ Edited("auto_calc_non_deductible", ~session.auto_calc_non_deductible)
    /\ session' = auto_calculate_non_deductible(
                      [session EXCEPT !.auto_calc_non_deductible = ~@])

TogglePensionDeduction ==
    /\ Edited("include_pension_deduction", ~session.include_pension_deduction)
    /\ session' = toggle_pension_deduction(
                      [session EXCEPT !.include_pension_deduction = ~@])

\* The button: take the snapshot, validate it, set the flags.
PressButton ==
    LET ui == UserInputOf(session)
    IN  /\ user_input_obj' = ui
        /\ session' = IF Validated(ui)
                      THEN [session EXCEPT !.calculated = TRUE, !.has_calculated_once = TRUE]
                      ELSE [session EXCEPT !.calculated = FALSE]
        /\ press' = [pressed |-> TRUE, passed |-> Validated(ui), changed |-> FALSE]
        /\ UNCHANGED << simVars, taxVars, accVars >>

UINext ==
    \/ ChangeStartAge
    \/ ChangeRetirementAge
    \/ ChangeEndAge
    \/ SelectProfile
    \/ ChangeAnnualContribution
    \/ ToggleAutoCalc
    \/ TogglePensionDeduction
    \/ PressButton

UISpec == UIInit /\ [][UINext]_vars

-----------------------------------------------------------------------------
(* C8: the flag calculated is TRUE only if the latest press of the button  *)
(* passed all validation checks and no simulation parameter has changed    *)
(* since; the snapshot the results are computed from is then the current   *)
(* input; every change of a parameter leaves calculated FALSE.             *)
C8_Fresh ==
    session.calculated =>
        /\ press.pressed /\ press.passed /\ ~press.changed
        /\ user_input_obj = UserInputOf(session)
        /\ user_input_obj.start_age < user_input_obj.retirement_age
        /\ user_input_obj.retirement_age < user_input_obj.end_age
        /\ user_input_obj.retirement_age >= 55
        /\ user_input_obj.retirement_age - user_input_obj.start_age >= 5
        /\ user_input_obj.end_age - user_input_obj.retirement_age >= 10
        /\ session.has_calculated_once

C8_ResetOnChange == Parameters(session') # Parameters(session) => ~session'.calculated

C8_StaleResultProtection == [](C8_Fresh) /\ [][C8_ResetOnChange]_vars

\* Results were shown, then the retirement age was changed (which also moved
\* the end age): the flag is down although the last press had passed.
C8_Witness ==
    /\ press.pressed /\ press.passed /\ press.changed
    /\ ~session.calculated
    /\ session.has_calculated_once
    /\ user_input_obj.retirement_age # session.retirement_age
    /\ user_input_obj.end_age # session.end_age

-----------------------------------------------------------------------------
(* Exact arithmetic on numbers of any size, for compounding over decades.  *)
(* A natural number is the sequence of its digits in base 10000, least     *)
(* significant first, without leading zeros (0 is the empty sequence).  A  *)
(* number is a record [s, num, den] standing for s * num / den with s in   *)
(* {1, -1} and den > 0; the fraction is not reduced, so numbers are        *)
(* compared with FEq and FLt, never with =.                                *)

RECURSIVE NatOf(_)
NatOf(k) == IF k = 0 THEN << >> ELSE << k % 10000 >> \o NatOf(k \div 10000)

RECURSIVE NatAddC(_, _, _)
NatAddC(a, b, carry) ==
    IF a = << >> /\ b = << >> THEN NatOf(carry)
    ELSE LET x == (IF a = << >> THEN 0 ELSE Head(a))
                  + (IF b = << >> THEN 0 ELSE Head(b)) + carry
         IN  << x % 10000 >>
                 \o NatAddC(IF a = << >> THEN a ELSE Tail(a),
                            IF b = << >> THEN b ELSE Tail(b), x \div 10000)

NatAdd(a, b) == NatAddC(a, b, 0)

\* a * k + carry for one digit k
RECURSIVE NatMulDigit(_, _, _)
NatMulDigit(a, k, carry) ==
    IF a = << >> THEN NatOf(carry)
    ELSE LET x == Head(a) * k + carry
         IN  << x % 10000 >> \o NatMulDigit(Tail(a), k, x \div 10000)

\* a * b, the digits of b split in halves
RECURSIVE NatMul(_, _)
NatMul(a, b) ==
    IF a = << >> \/ b = << >> THEN << >>
    ELSE IF Len(b) = 1
    THEN IF b[1] = 0 THEN << >> ELSE NatMulDigit(a, b[1], 0)
    ELSE LET h == Len(b) \div 2
             low == NatMul(a, SubSeq(b, 1, h))
             high == NatMul(a, SubSeq(b, h + 1, Len(b)))
         IN  NatAdd(low, IF high = << >> THEN << >> ELSE [i \in 1..h |-> 0] \o high)

\* a < b
RECURSIVE NatLt(_, _)
NatLt(a, b) ==
    IF Len(a) # Len(b) THEN Len(a) < Len(b)
    ELSE IF a = << >> THEN FALSE
    ELSE IF a[Len(a)] # b[Len(b)] THEN a[Len(a)] < b[Len(b)]
    ELSE NatLt(SubSeq(a, 1, Len(a) - 1), SubSeq(b, 1, Len(b) - 1))

RECURSIVE NatStrip(_)
NatStrip(a) ==
    IF a = << >> \/ a[Len(a)] # 0 THEN a ELSE NatStrip(SubSeq(a, 1, Len(a) - 1))

\* a - b for a >= b
RECURSIVE NatSubB(_, _, _)
NatSubB(a, b, borrow) ==
    IF a = << >> THEN << >>
    ELSE LET x == Head(a) - (IF b = << >> THEN 0 ELSE Head(b)) - borrow
         IN  << x % 10000 >>
                 \o NatSubB(Tail(a), IF b = << >> THEN b ELSE Tail(b),
                            IF x < 0 THEN 1 ELSE 0)

NatSub(a, b) == NatStrip(NatSubB(a, b, 0))

\* The integer k and the small number a (of the arithmetic above) as numbers.
FInt(k) == [s |-> IF k < 0 THEN -1 ELSE 1, num |-> NatOf(Abs(k)), den |-> NatOf(1)]
FOf(a) ==
    [s |-> IF Numer(a) < 0 THEN -1 ELSE 1, num |-> NatOf(Abs(Numer(a))), den |-> NatOf(a.d)]

FZero == FInt(0)
FOne == FInt(1)

\* a + b, a * b, a / b (b # 0), a - b
FAdd(a, b) ==
    LET x == NatMul(a.num, b.den)
        y == NatMul(b.num, a.den)
        den == NatMul(a.den, b.den)
    IN  IF a.s = b.s THEN [s |-> a.s, num |-> NatAdd(x, y), den |-> den]
        ELSE IF x = y THEN [s |-> 1, num |-> << >>, den |-> den]
        ELSE IF NatLt(y, x) THEN [s |-> a.s, num |-> NatSub(x, y), den |-> den]
        ELSE [s |-> b.s, num |-> NatSub(y, x), den |-> den]
FMul(a, b) ==
    LET num == NatMul(a.num, b.num)
    IN  [s |-> IF num = << >> THEN 1 ELSE a.s * b.s, num |-> num, den |-> NatMul(a.den, b.den)]
FDiv(a, b) ==
    LET num == NatMul(a.num, b.den)
    IN  [s |-> IF num = << >> THEN 1 ELSE a.s * b.s, num |-> num, den |-> NatMul(a.den, b.num)]
FSub(a, b) == FAdd(a, [b EXCEPT !.s = IF b.num = << >> THEN 1 ELSE -b.s])

\* a = b, a < b, a > b, a <= b as numbers
FEq(a, b) == a.s = b.s /\ NatMul(a.num, b.den) = NatMul(b.num, a.den)
FLt(a, b) ==
    IF a.s # b.s THEN a.s < b.s
    ELSE IF a.s = 1 THEN NatLt(NatMul(a.num, b.den), NatMul(b.num, a.den))
    ELSE NatLt(NatMul(b.num, a.den), NatMul(a.num, b.den))
FGt(a, b) == FLt(b, a)
FLeq(a, b) == ~FLt(b, a)

\* min(a, b): the first argument on a tie
FMin(a, b) == IF FLt(b, a) THEN b ELSE a

\* a ** k for an integer k >= 0 (by repeated squaring), and a ** -k
RECURSIVE FPow(_, _)
FPow(a, k) ==
    IF k = 0 THEN FOne
    ELSE IF k % 2 = 1 THEN FMul(FPow(a, k - 1), a)
    ELSE LET half == FPow(a, k \div 2) IN FMul(half, half)
FPowNeg(a, k) == FDiv(FOne, FPow(a, k))

-----------------------------------------------------------------------------
(* The main script from the button's result on: the accumulation loop of   *)
(* calculate_total_at_retirement, the hand-over to run_payout_simulation   *)
(* and the withdrawal of the first payout year, for inputs of the          *)
(* sidebar's default shape.  Amounts are numbers of any size here.         *)

ScenarioStartAges == { 30, 45 }
ScenarioRetirementAges == { 60 }
ScenarioEndAges == { 75, 90 }
ScenarioPreReturns == { I(4), I(6) }
ScenarioPostReturns == { I(3), I(4) }
ScenarioContributions == { 0, 6000000 }

Scenarios ==
    { ui \in
        { [start_age |-> sa, retirement_age |-> ra, end_age |-> ea,
           pre_retirement_return |-> pre, post_retirement_return |-> post,
           annual_contribution |-> ac, non_deductible_contribution |-> 0,
           other_non_deductible_total |-> 0,
           other_private_pension_income |-> 0, public_pension_income |-> 0,
           other_comprehensive_income |-> 0,
           contribution_timing |-> ct, include_pension_deduction |-> FALSE] :
            sa \in ScenarioStartAges, ra \in ScenarioRetirementAges,
            ea \in ScenarioEndAges, pre \in ScenarioPreReturns,
            post \in ScenarioPostReturns, ac \in ScenarioContributions,
            ct \in ContributionTimings } :
        Validated(ui) }

\* A faulty variant: the balance grows at the post-retirement return.
GrowthFactor_PostReturn(ui) == FOf(Add(One, post_ret_rate(ui)))

\* (1 + pre_ret_rate)
GrowthFactor(ui) == FOf(Add(One, pre_ret_rate(ui)))

\* One round of the accumulation loop.
GrowthStep(ui, current_value) ==
    IF ui.contribution_timing = "start_of_year"
    THEN FMul(FAdd(current_value, FInt(ui.annual_contribution)), GrowthFactor(ui))
    ELSE FAdd(FMul(current_value, GrowthFactor(ui)), FInt(ui.annual_contribution))

\* annuity_factor = ((1 - (1 + r) ** -n) / r) * (1 + r)
FAnnuityFactor(remaining_years, rate) ==
    LET annuity_factor_ordinary ==
            FDiv(FSub(FOne, FPowNeg(FAdd(FOne, rate), remaining_years)), rate)
    IN  FMul(annuity_factor_ordinary, FAdd(FOne, rate))

\* annual_payout of an iteration, clamped to the balance
FirstPayout(ui, current_balance, remaining_years) ==
    LET branch == PayoutBranch(remaining_years, post_ret_rate(ui))
        rate == FOf(post_ret_rate(ui))
        annual_payout ==
            IF branch = "no_years" THEN FZero
            ELSE IF branch = "zero_rate" THEN FDiv(current_balance, FInt(remaining_years))
            ELSE IF branch = "liquidate" THEN current_balance
            ELSE LET annuity_factor == FAnnuityFactor(remaining_years, rate)
                 IN  IF FGt(annuity_factor, FZero) THEN FDiv(current_balance, annuity_factor)
                     ELSE FZero
    IN  FMin(annual_payout, current_balance)

AccInit ==
    /\ inputs \in Scenarios
    /\ accumulation = [year |-> 0, current_value |-> FZero, asset_growth_data |-> << >>]
    /\ pc = "accumulate"
    /\ total_at_retirement = Zero
    /\ non_taxable_wallet = Zero
    /\ taxable_wallet = Zero
    /\ year_offset = 0
    /\ annual_breakdown = << >>
    /\ local = NoLocal
    /\ TaxIdle
    /\ UIIdle

\* `for year in range(contribution_years)`: one round
AccumulateYear ==
    /\ pc = "accumulate"
    /\ accumulation.year < inputs.retirement_age - inputs.start_age
    /\ \E v \in { GrowthStep(inputs, accumulation.current_value) } :
        accumulation' =
            [year |-> accumulation.year + 1,
             current_value |-> v,
             asset_growth_data |->
                 Append(accumulation.asset_growth_data,
                        [year |-> inputs.start_age + accumulation.year + 1, value |-> v])]
    /\ UNCHANGED << simVars, taxVars, uiVars >>

\* The loop is exhausted: the balance is returned; the main script calls
\* run_payout_simulation when it is positive, which sets up the wallets.
ReturnTotal ==
    /\ pc = "accumulate"
    /\ ~(accumulation.year < inputs.retirement_age - inputs.start_age)
    /\ total_at_retirement' = accumulation.current_value
    /\ IF FGt(accumulation.current_value, FZero)
       THEN /\ non_taxable_wallet' = FInt(TotalNonDeductiblePaid(inputs))
            /\ taxable_wallet' =
                   FSub(accumulation.current_value, FInt(TotalNonDeductiblePaid(inputs)))
            /\ pc' = "payout"
       ELSE /\ pc' = "not_simulated"
            /\ UNCHANGED << non_taxable_wallet, taxable_wallet >>
    /\ UNCHANGED << inputs, year_offset, annual_breakdown, local, taxVars, uiVars, accVars >>

\* The first iteration of the payout loop up to the clamp of annual_payout.
FirstWithdrawal ==
    /\ pc = "payout"
    /\ year_offset < payout_years(inputs)
    /\ \E current_balance \in { FAdd(non_taxable_wallet, taxable_wallet) } :
        IF FLeq(current_balance, FZero)
        THEN pc' = "done" /\ UNCHANGED local
        ELSE /\ pc' = "withdrawn"
             /\ local' =
                    [payout_year_count |-> year_offset + 1,
                     raised |-> FALSE,
                     current_age |-> inputs.retirement_age + year_offset,
                     remaining_years |-> RemainingYears(inputs, year_offset),
                     current_balance |-> current_balance,
                     annual_payout |->
                         FirstPayout(inputs, current_balance,
                                     RemainingYears(inputs, year_offset))]
    /\ UNCHANGED << inputs, total_at_retirement, non_taxable_wallet, taxable_wallet,
                    year_offset, annual_breakdown, taxVars, uiVars, accVars >>

AccNext == AccumulateYear \/ ReturnTotal \/ FirstWithdrawal

AccSpec == AccInit /\ [][AccNext]_vars

-----------------------------------------------------------------------------
(* C11 as the spec states it: for start age 30, retirement age 60, end age *)
(* 90, pre-retirement return 6%, post-retirement return 4% and 6,000,000   *)
(* paid at the end of each year, the balance returned by                   *)
(* calculate_total_at_retirement is the result of 30 repetitions of        *)
(* balance <- balance * 1.04 + 6,000,000 from 0, and the first payout      *)
(* year's gross withdrawal is that balance divided by                      *)
(* ((1 - 1.04^-30) / 0.04) * 1.04.                                         *)

\* The inputs of the scenario.
C11_Scenario ==
    /\ inputs.start_age = 30 /\ inputs.retirement_age = 60 /\ inputs.end_age = 90
    /\ inputs.pre_retirement_return = I(6) /\ inputs.post_retirement_return = I(4)
    /\ inputs.annual_contribution = 6000000
    /\ inputs.contribution_timing = "end_of_year"

\* The yearly balances are the repetitions of balance <- balance * factor + 6,000,000
\* from 0, and the balance returned is the 30th of them.
C11_Repetitions(factor) ==
    LET data == accumulation.asset_growth_data
    IN  /\ Len(data) = 30
        /\ \A k \in 1..Len(data) :
            FEq(data[k].value,
                FAdd(FMul(IF k = 1 THEN FZero ELSE data[k - 1].value, factor),
                     FInt(6000000)))
        /\ FEq(total_at_retirement, data[Len(data)].value)

\* The first gross withdrawal is the returned balance over the annuity-due
\* factor of 4% and 30 years.
C11_FirstWithdrawal ==
    pc = "withdrawn" =>
        LET r == FOf(Q(4, 100))
            growth == FOf(Q(104, 100))
            factor == FMul(FDiv(FSub(FOne, FPowNeg(growth, 30)), r), growth)
        IN  /\ local.payout_year_count = 1
            /\ FEq(local.annual_payout, FDiv(total_at_retirement, factor))

C11_AccumulationAtPostReturn ==
    (C11_Scenario /\ pc \in {"payout", "withdrawn"}) =>
        C11_Repetitions(FOf(Q(104, 100))) /\ C11_FirstWithdrawal

(* C11 amended: in that scenario the balance returned is the result of 30  *)
(* repetitions of balance <- balance * 1.06 + 6,000,000 from 0 (the        *)
(* pre-retirement return), and the first payout year's gross withdrawal is *)
(* the returned balance divided by ((1 - 1.04^-30) / 0.04) * 1.04.         *)
C11_AccumulationScenario ==
    (C11_Scenario /\ pc \in {"payout", "withdrawn"}) =>
        C11_Repetitions(FOf(Q(106, 100))) /\ C11_FirstWithdrawal

\* The scenario after its first withdrawal, which is less than the balance.
C11_Witness ==
    /\ C11_Scenario
    /\ pc = "withdrawn"
    /\ accumulation.year = 30
    /\ FGt(local.annual_payout, FZero)
    /\ FLt(local.annual_payout, total_at_retirement)

=============================================================================
